---------------------------- MODULE Spec2Model ----------------------------
(***************************************************************************)
(* DreamNest API (src/main.py, src/schemas.py): the request handlers over  *)
(* the document store, as a state machine.                                 *)
(*                                                                         *)
(* The store holds one collection per entity.  A document's key is an      *)
(* ObjectId, modelled as a positive natural number; a caller supplies      *)
(* identifiers as strings, modelled as records [oid, form]:                *)
(*   form = "lower"  the 24 hex digits of ObjectId oid, in lower case      *)
(*                   (what str(ObjectId) renders),                         *)
(*   form = "upper"  the same digits in upper case (ObjectId.is_valid and  *)
(*                   ObjectId() accept them: bytes.fromhex ignores case),  *)
(*   form = "bad"    a string that is no ObjectId,                         *)
(*   form = "none"   Python's None in an Optional[str] identifier field.   *)
(* Every handler that performs one store operation is one action; the      *)
(* create_followup handler performs three (find_one, insert, update_one)   *)
(* and is three actions per request, which other requests interleave with. *)
(***************************************************************************)
EXTENDS Integers, Sequences, FiniteSets, Bags, TLC

\* ------------------------------------------------------------- bounds
\* Documents ever inserted (the counter behind generated ObjectIds).
MaxDocs == 2
\* Requests to POST /api/followups in flight at once.
MaxInflight == 1
\* Amounts of the quotation calculator range over 0 .. MaxCents hundredths.
MaxCents == 4

VARIABLES
    lead,        \* collection "lead": ObjectId -> document
    followup,    \* collection "followup": ObjectId -> document
    quotation,   \* collection "quotation": ObjectId -> document
    catalog,     \* collections community, tower, flat, floorplan: ObjectId -> document
    nextId,      \* the next ObjectId the store generates
    cf,          \* create_followup requests in flight: a bag of positions
    ev,          \* the request the last step served and its response
    quote,       \* POST /api/quotations/compute: the inputs and the response
    died         \* ids of the follow-ups whose request died after the insert

vars == <<lead, followup, quotation, catalog, nextId, cf, ev, quote, died>>
store == <<lead, followup, quotation, catalog, nextId>>

\* ------------------------------------------------------------- identifiers
Forms == {"lower", "upper"}
NoneId == [oid |-> 0, form |-> "none"]
BadId == [oid |-> 0, form |-> "bad"]
\* The id of a user (agent or manager): well-formed, and never a document of
\* the collections modelled here.
UserId == [oid |-> 0, form |-> "lower"]
NoneS == "None"

\* bson.ObjectId.is_valid on a str: 24 hex digits, of either case.
is_valid(s) == s.form \in Forms
\* bson.ObjectId(s) of a valid string: the 12 bytes the digits denote.
ObjectId(s) == s.oid
\* str(ObjectId): the digits in lower case.
Str(n) == [oid |-> n, form |-> "lower"]

Upper(n) == [oid |-> n, form |-> "upper"]

\* The identifier strings a caller sends: a malformed one, a well-formed one
\* that names no document (UserId), and the id of each stored lead in either
\* case.  (A well-formed id of a document of another collection behaves as
\* UserId does in every filter on the lead collection.)
CallerIds == {BadId, UserId} \cup {Str(n) : n \in DOMAIN lead} \cup {Upper(n) : n \in DOMAIN lead}

\* A create_followup request in flight: past find_one ("found") or past the
\* insert ("inserted", with the id the insert returned).  Requests carry no
\* identity of their own: two that stand at the same place are two copies.
Found(lead_id) == [pc |-> "found", lead_id |-> lead_id, new_id |-> NoneId]
Inserted(lead_id, new_id) == [pc |-> "inserted", lead_id |-> lead_id, new_id |-> new_id]
AllIds == {[oid |-> n, form |-> f] : n \in 0..MaxDocs, f \in Forms}
Requests == {Found(i) : i \in AllIds} \cup {Inserted(i, Str(n)) : i \in AllIds, n \in 1..MaxDocs}
InFlight == BagToSet(cf)

\* ------------------------------------------------------------- responses
\* pymongo find_one / update_one filter {"_id": ObjectId(s)}: the documents matched.
Matched(coll, s) == {o \in DOMAIN coll : o = ObjectId(s)}

\* What the last step did.  Of the request: the handler (op), what the
\* caller gave as identifier (kind: "none", "bad" or "ok"), whether a stored
\* lead had that id when the step began (known), whether a PATCH body
\* supplied no field (empty).  Of the response: the HTTP status (code; 0
\* while the handler has not answered yet, 500 when it raised) and the
\* body's id and updated fields.  And whether the handler handed the
\* caller's identifier to the store, in a filter or in a document (used).
Kind(id) == IF id = NoneId THEN "none" ELSE IF is_valid(id) THEN "ok" ELSE "bad"
NoEv == [op |-> "none", kind |-> "none", known |-> FALSE, empty |-> FALSE,
         code |-> 0, used |-> FALSE, new_id |-> NoneId, updated |-> "na"]
Ev(op, id, code, used) ==
    [NoEv EXCEPT !.op = op, !.kind = Kind(id),
                 !.known = (is_valid(id) /\ Matched(lead, id) # {}),
                 !.code = code, !.used = used]

\* ------------------------------------------------------------- persistence
\* database.create_document: insert one record under a generated ObjectId and
\* return that id as a string.
Insert(coll, doc) == coll @@ (nextId :> doc)

CanInsert == nextId <= MaxDocs

\* ------------------------------------------------------------- catalog
Communities == {[coll |-> "community", name |-> "c", city |-> "x"]}
Towers == {[coll |-> "tower", name |-> "t", community_id |-> BadId]}
Flats == {[coll |-> "flat", number |-> "1", tower_id |-> BadId, status |-> "available"]}
FloorPlans == {[coll |-> "floorplan", bhk_type |-> "2BHK"]}

\* POST /api/communities, /api/towers, /api/flats, /api/floorplans
create_catalog(op, payload) ==
    /\ CanInsert
    /\ catalog' = Insert(catalog, payload)
    /\ nextId' = nextId + 1
    /\ ev' = [Ev(op, NoneId, 200, FALSE) EXCEPT !.new_id = Str(nextId)]
    /\ UNCHANGED <<lead, followup, quotation, cf, quote, died>>

create_community(payload) == create_catalog("create_community", payload)
create_tower(payload) == create_catalog("create_tower", payload)
create_flat(payload) == create_catalog("create_flat", payload)
create_floorplan(payload) == create_catalog("create_floorplan", payload)

\* GET /api/catalog
get_catalog ==
    /\ ev' = Ev("get_catalog", NoneId, 200, FALSE)
    /\ UNCHANGED <<store, cf, quote, died>>

\* ------------------------------------------------------------- leads
LeadRequests ==
    [name : {"n"}, phone : {"p"}, email : {NoneS},
     requirement_type : {NoneS}, source : {NoneS}]

Or(v, default) == IF v = NoneS THEN default ELSE v

\* POST /api/leads
create_lead(payload) ==
    /\ CanInsert
    /\ LET l == [name |-> payload.name,
                 phone |-> payload.phone,
                 email |-> payload.email,
                 requirement_type |-> Or(payload.requirement_type, "Interior"),
                 source |-> Or(payload.source, "web"),
                 status |-> "New",
                 assigned_manager_id |-> NoneId,
                 assigned_agent_id |-> NoneId,
                 follow_up_ids |-> <<>>]
       IN  /\ lead' = Insert(lead, l)
           /\ nextId' = nextId + 1
           /\ ev' = [Ev("create_lead", NoneId, 200, FALSE) EXCEPT !.new_id = Str(nextId)]
    /\ UNCHANGED <<followup, quotation, catalog, cf, quote, died>>

\* GET /api/leads?assigned_to=...   (NoneId: the parameter is absent)
list_leads(assigned_to) ==
    /\ ev' = Ev("list_leads", assigned_to, 200, assigned_to # NoneId)
    /\ UNCHANGED <<store, cf, quote, died>>

\* LeadUpdate: every field optional.
\* A PATCH body in which every field is absent or null.
NoFields(payload) ==
    /\ payload.status = NoneS
    /\ payload.assigned_agent_id = NoneId
    /\ payload.assigned_manager_id = NoneId

NoUpdate == [status |-> NoneS, assigned_agent_id |-> NoneId, assigned_manager_id |-> NoneId]
LeadUpdates ==
    {NoUpdate,
     [NoUpdate EXCEPT !.status = "Won"],
     [NoUpdate EXCEPT !.assigned_agent_id = UserId, !.assigned_manager_id = UserId]}

\* model_dump() without exclude_none: the None fields are kept.
update_doc_KeepNone(payload) == {"status", "assigned_agent_id", "assigned_manager_id"}

\* payload.model_dump(exclude_none=True): the fields that are not None.
update_doc(payload) ==
    {k \in {"status", "assigned_agent_id", "assigned_manager_id"} :
        payload[k] # (IF k = "status" THEN NoneS ELSE NoneId)}

\* A replacement of the three fields instead of a $set of those supplied.
Set_Replace(doc, payload) ==
    [k \in DOMAIN doc |-> IF k \in DOMAIN payload THEN payload[k] ELSE doc[k]]

\* {"$set": update_doc} on one document.
Set(doc, payload) ==
    [k \in DOMAIN doc |-> IF k \in update_doc(payload) THEN payload[k] ELSE doc[k]]

\* update_lead without the matched_count test.
update_lead_NoMatchCheck(lead_id, payload) ==
    /\ IF ~is_valid(lead_id)
       THEN /\ ev' = [Ev("update_lead", lead_id, 400, FALSE) EXCEPT !.empty = NoFields(payload)]
            /\ lead' = lead
       ELSE IF update_doc(payload) = {}
       THEN /\ ev' = [Ev("update_lead", lead_id, 200, FALSE)
                         EXCEPT !.updated = "false", !.empty = NoFields(payload)]
            /\ lead' = lead
       ELSE /\ lead' = [o \in DOMAIN lead |->
                          IF o \in Matched(lead, lead_id) THEN Set(lead[o], payload)
                                                          ELSE lead[o]]
            /\ ev' = [Ev("update_lead", lead_id, 200, TRUE)
                         EXCEPT !.updated = "true", !.empty = NoFields(payload)]
    /\ UNCHANGED <<followup, quotation, catalog, nextId, cf, quote, died>>

\* PATCH /api/leads/{lead_id}
update_lead(lead_id, payload) ==
    /\ IF ~is_valid(lead_id)
       THEN /\ ev' = [Ev("update_lead", lead_id, 400, FALSE) EXCEPT !.empty = NoFields(payload)]
            /\ lead' = lead
       ELSE IF update_doc(payload) = {}
       THEN /\ ev' = [Ev("update_lead", lead_id, 200, FALSE)
                         EXCEPT !.updated = "false", !.empty = NoFields(payload)]
            /\ lead' = lead
       ELSE /\ lead' = [o \in DOMAIN lead |->
                          IF o \in Matched(lead, lead_id) THEN Set(lead[o], payload)
                                                          ELSE lead[o]]
            /\ IF Matched(lead, lead_id) = {}
               THEN ev' = [Ev("update_lead", lead_id, 404, TRUE) EXCEPT !.empty = NoFields(payload)]
               ELSE ev' = [Ev("update_lead", lead_id, 200, TRUE)
                              EXCEPT !.updated = "true", !.empty = NoFields(payload)]
    /\ UNCHANGED <<followup, quotation, catalog, nextId, cf, quote, died>>

\* ------------------------------------------------------------- follow-ups
FollowUps(lead_id) == [lead_id |-> lead_id, notes |-> "note", type |-> "call"]

\* create_followup without the find_one test.
CfCheck_NoLeadLookup(lead_id) ==
    /\ IF ~is_valid(lead_id)
       THEN /\ ev' = Ev("create_followup", lead_id, 400, FALSE)
            /\ cf' = cf
       ELSE /\ BagCardinality(cf) < MaxInflight
            /\ ev' = Ev("create_followup", lead_id, 0, TRUE)
            /\ cf' = cf (+) SetToBag({Found(lead_id)})
    /\ UNCHANGED <<store, quote, died>>

\* POST /api/followups, lines 181-185: the identifier check and find_one.
CfCheck(lead_id) ==
    /\ IF ~is_valid(lead_id)
       THEN /\ ev' = Ev("create_followup", lead_id, 400, FALSE)
            /\ cf' = cf
       ELSE IF Matched(lead, lead_id) = {}
       THEN /\ ev' = Ev("create_followup", lead_id, 404, TRUE)
            /\ cf' = cf
       ELSE /\ BagCardinality(cf) < MaxInflight
            /\ ev' = Ev("create_followup", lead_id, 0, TRUE)
            /\ cf' = cf (+) SetToBag({Found(lead_id)})
    /\ UNCHANGED <<store, quote, died>>

\* line 186: create_document("followup", payload)
CfInsert(r) ==
    /\ r \in InFlight
    /\ r.pc = "found"
    /\ CanInsert
    /\ followup' = Insert(followup, FollowUps(r.lead_id))
    /\ nextId' = nextId + 1
    /\ cf' = (cf (-) SetToBag({r})) (+) SetToBag({Inserted(r.lead_id, Str(nextId))})
    /\ ev' = Ev("create_followup", r.lead_id, 0, TRUE)
    /\ UNCHANGED <<lead, quotation, catalog, quote, died>>

\* A $push that is lost.
Push_Lost(doc, new_id) == doc

\* A $push that is applied twice (an update that is retried).
Push_Twice(doc, new_id) == [doc EXCEPT !.follow_up_ids = Append(Append(@, new_id), new_id)]

\* {"$push": {"follow_up_ids": new_id}} on one document.
Push(doc, new_id) == [doc EXCEPT !.follow_up_ids = Append(@, new_id)]

\* The update filtered on the id string, {"_id": lead_id}, which matches no
\* document: ObjectIds are not strings.
CfPush_StringFilter(r) ==
    /\ r \in InFlight
    /\ r.pc = "inserted"
    /\ lead' = lead
    /\ cf' = cf (-) SetToBag({r})
    /\ ev' = [Ev("create_followup", r.lead_id, 200, TRUE) EXCEPT !.new_id = r.new_id]
    /\ UNCHANGED <<followup, quotation, catalog, nextId, quote, died>>

\* lines 188-189: update_one with $push, and the response.
CfPush(r) ==
    /\ r \in InFlight
    /\ r.pc = "inserted"
    /\ lead' = [o \in DOMAIN lead |->
                  IF o \in Matched(lead, r.lead_id) THEN Push(lead[o], r.new_id)
                                                    ELSE lead[o]]
    /\ cf' = cf (-) SetToBag({r})
    /\ ev' = [Ev("create_followup", r.lead_id, 200, TRUE) EXCEPT !.new_id = r.new_id]
    /\ UNCHANGED <<followup, quotation, catalog, nextId, quote, died>>

\* The request dies between two store operations (the store call raises, the
\* process is killed): the handler has no transaction and no compensation.
CfFail(r) ==
    /\ r \in InFlight
    /\ cf' = cf (-) SetToBag({r})
    /\ ev' = Ev("create_followup", r.lead_id, 500, TRUE)
    /\ died' = IF r.pc = "inserted" THEN died \cup {ObjectId(r.new_id)} ELSE died
    /\ UNCHANGED <<store, quote>>

\* GET /api/followups/{lead_id}: the filter compares the stored string.
list_followups(lead_id) ==
    /\ IF ~is_valid(lead_id)
       THEN ev' = Ev("list_followups", lead_id, 400, FALSE)
       ELSE ev' = Ev("list_followups", lead_id, 200, TRUE)
    /\ UNCHANGED <<store, cf, quote, died>>

\* ------------------------------------------------------------- quotations
\* Python floats, modelled as exact rationals [n, d] in lowest terms.  Within
\* the bounds used here every value has at most eight decimal digits, so the
\* binary rounding error of a float never moves a value across a rounding
\* boundary; it can only decide a value that lies exactly on one.
RECURSIVE GCD(_, _)
GCD(a, b) == IF b = 0 THEN a ELSE GCD(b, a % b)

Rat(n, d) == LET g == GCD(n, d) IN IF n = 0 THEN [n |-> 0, d |-> 1]
                                             ELSE [n |-> n \div g, d |-> d \div g]
Whole(k) == Rat(k, 1)
Hundredths(k) == Rat(k, 100)

RMul(a, b) ==
    LET g1 == GCD(a.n, b.d)
        g2 == GCD(b.n, a.d)
    IN  IF a.n = 0 \/ b.n = 0 THEN Whole(0)
        ELSE [n |-> (a.n \div g1) * (b.n \div g2), d |-> (a.d \div g2) * (b.d \div g1)]
RDiv(a, k) == RMul(a, Rat(1, k))
RAdd(a, b) ==
    LET g == GCD(a.d, b.d)
    IN  Rat(a.n * (b.d \div g) + b.n * (a.d \div g), (a.d \div g) * b.d)

\* round(x, 2), as the number of hundredths: the nearest one; a value exactly
\* half-way between two goes to either, as its float representation decides.
round2(x) ==
    LET c == RMul(x, Whole(100))
        q == c.n \div c.d
        r == c.n % c.d
    IN  IF 2 * r < c.d THEN {q}
        ELSE IF 2 * r > c.d THEN {q + 1}
        ELSE {q, q + 1}

\* The calculator with every stage rounded before the next one uses it.
compute_quote_Stagewise(inputs) ==
    UNION {UNION {{[subtotal |-> s, gst |-> g, markup |-> m, total |-> s + g + m] :
                     m \in round2(RMul(Hundredths(s + g), RDiv(inputs.markup_percent, 100)))} :
                  g \in round2(RMul(Hundredths(s), RDiv(inputs.gst_percent, 100)))} :
           s \in round2(RAdd(RMul(inputs.area, inputs.rate_per_sqft), inputs.material_cost))}

\* POST /api/quotations/compute: the responses the handler can give (amounts
\* in hundredths).
compute_quote(inputs) ==
    LET subtotal == RAdd(RMul(inputs.area, inputs.rate_per_sqft), inputs.material_cost)
        gst == RMul(subtotal, RDiv(inputs.gst_percent, 100))
        total_with_gst == RAdd(subtotal, gst)
        markup == RMul(total_with_gst, RDiv(inputs.markup_percent, 100))
    IN  {[subtotal |-> s, gst |-> g, markup |-> m, total |-> t] :
            s \in round2(subtotal), g \in round2(gst), m \in round2(markup),
            t \in round2(RAdd(total_with_gst, markup))}

\* The inputs of the documented example: 1000 sq ft at 1500, material 50000,
\* GST 18 %, markup 10 %.
ExampleInputs ==
    [area |-> Whole(1000), rate_per_sqft |-> Whole(1500), material_cost |-> Whole(50000),
     gst_percent |-> Whole(18), markup_percent |-> Whole(10)]

\* QuotationInputs: the amounts tried (none negative: Field(..., ge=0)).
Amounts == {Hundredths(k) : k \in 0..MaxCents} \cup {Whole(1)}
Percents == {Whole(0), Whole(10), Whole(18)}
QuotationInputs ==
    [area : Amounts, rate_per_sqft : Amounts, material_cost : Amounts,
     gst_percent : Percents, markup_percent : Percents] \cup {ExampleInputs}

NoResult == [subtotal |-> -1, gst |-> -1, markup |-> -1, total |-> -1]
NoQuote == [inputs |-> ExampleInputs, result |-> NoResult]

\* One request to POST /api/quotations/compute.
ComputeQuote ==
    /\ quote.result = NoResult
    /\ \E res \in compute_quote(quote.inputs) : quote' = [quote EXCEPT !.result = res]
    /\ UNCHANGED <<store, cf, ev, died>>

\* QuotationCreate: the pricing inputs the creation endpoint is tried with.
CreateInputs ==
    {[area |-> Whole(1), rate_per_sqft |-> Hundredths(5), material_cost |-> Whole(0),
      gst_percent |-> Whole(18), markup_percent |-> Whole(10)]}

\* POST /api/quotations
create_quote(lead_id, inputs) ==
    /\ IF ~is_valid(lead_id)
       THEN /\ ev' = Ev("create_quote", lead_id, 400, FALSE)
            /\ UNCHANGED <<quotation, nextId>>
       ELSE /\ CanInsert
            /\ \E res \in compute_quote(inputs) :
                 quotation' = Insert(quotation,
                                     [lead_id |-> lead_id, pricing_inputs |-> inputs,
                                      generated_price |-> res.total])
            /\ nextId' = nextId + 1
            /\ ev' = [Ev("create_quote", lead_id, 200, TRUE) EXCEPT !.new_id = Str(nextId)]
    /\ UNCHANGED <<lead, followup, catalog, cf, quote, died>>

\* GET /api/quotations/by-lead/{lead_id}
quotes_by_lead(lead_id) ==
    /\ IF ~is_valid(lead_id)
       THEN ev' = Ev("quotes_by_lead", lead_id, 400, FALSE)
       ELSE ev' = Ev("quotes_by_lead", lead_id, 200, TRUE)
    /\ UNCHANGED <<store, cf, quote, died>>

\* ------------------------------------------------------------- specifications
Init ==
    /\ lead = <<>>
    /\ followup = <<>>
    /\ quotation = <<>>
    /\ catalog = <<>>
    /\ nextId = 1
    /\ cf = EmptyBag
    /\ ev = NoEv
    /\ quote = NoQuote
    /\ died = {}

\* The lead and follow-up handlers that write.
NextLead ==
    \/ \E p \in LeadRequests : create_lead(p)
    \/ \E i \in CallerIds, p \in LeadUpdates : update_lead(i, p)
    \/ \E i \in CallerIds : CfCheck(i)
    \/ \E r \in InFlight : CfInsert(r)
    \/ \E r \in InFlight : CfPush(r)
    \/ \E r \in InFlight : CfFail(r)

\* Every handler that writes.
NextWrite ==
    \/ NextLead
    \/ \E p \in Communities : create_community(p)
    \/ \E p \in Towers : create_tower(p)
    \/ \E p \in Flats : create_flat(p)
    \/ \E p \in FloorPlans : create_floorplan(p)
    \/ \E i \in CallerIds, q \in CreateInputs : create_quote(i, q)

\* Every handler.
Next ==
    \/ NextWrite
    \/ get_catalog
    \/ \E a \in CallerIds \cup {NoneId} : list_leads(a)
    \/ \E i \in CallerIds : list_followups(i)
    \/ \E i \in CallerIds : quotes_by_lead(i)

Spec == Init /\ [][Next]_vars

\* The writing handlers alone: the GET handlers change no variable but ev.
WriteSpec == Init /\ [][NextWrite]_vars

\* The lead and follow-up handlers alone: the other writing handlers change
\* neither the lead collection, nor the followup collection, nor cf.
LeadSpec == Init /\ [][NextLead]_vars

\* The $push of the request that inserted follow-up n.
PushOf(n) == \E r \in InFlight : r.new_id = Str(n) /\ CfPush(r)

\* A create_followup request that has inserted and does not die goes on to
\* its $push: the handler is straight-line code.
FairSpec == LeadSpec /\ \A n \in 1..MaxDocs : WF_vars(PushOf(n))

\* The calculator alone: one request per choice of inputs.
InitQuote ==
    /\ lead = <<>>
    /\ followup = <<>>
    /\ quotation = <<>>
    /\ catalog = <<>>
    /\ nextId = 1
    /\ cf = EmptyBag
    /\ ev = NoEv
    /\ quote \in [inputs : QuotationInputs, result : {NoResult}]
    /\ died = {}

NextQuote == ComputeQuote

QuoteSpec == InitQuote /\ [][NextQuote]_vars
\* ------------------------------------------------------------- properties
\* The lead a stored follow-up names, and whether its id is in a lead's list.
Listed(n) == \E o \in DOMAIN lead : \E k \in 1..Len(lead[o].follow_up_ids) :
                lead[o].follow_up_ids[k] = Str(n)
ListedAt(n) == {o \in DOMAIN lead : \E k \in 1..Len(lead[o].follow_up_ids) :
                   lead[o].follow_up_ids[k] = Str(n)}

\* C1: a POST /api/followups whose lead_id is well-formed and matches no
\* stored lead answers 404 and changes nothing: no follow-up is inserted, no
\* request stays in flight to insert one, no lead is touched.
C1_UnknownLeadRejected ==
    [][(ev'.op = "create_followup" /\ ev'.kind = "ok" /\ ~ev'.known) =>
           (ev'.code = 404 /\ UNCHANGED store /\ cf' = cf)]_vars

C1_Witness ==
    /\ ev.op = "create_followup"
    /\ ev.kind = "ok"
    /\ ~ev.known
    /\ ev.code = 404
    /\ DOMAIN lead # {}

C3_QuotationLeadExists ==
    \A q \in DOMAIN quotation : Matched(lead, quotation[q].lead_id) # {}

\* C4: every identifier-accepting endpoint given a malformed id answers 400
\* and hands the id to no store operation.
C4_MalformedIdRejected ==
    ev.kind = "bad" => (ev.code = 400 /\ ~ev.used)

\* The exact amounts of the calculator for inputs given in hundredths
\* (percentages in whole percent): subtotal in 1/10^4, GST and the total with
\* GST in 1/10^6, markup and the grand total in 1/10^8.
InCents(x) == (x.n * 100) \div x.d
ExactSubtotal(i) == InCents(i.area) * InCents(i.rate_per_sqft) + 100 * InCents(i.material_cost)
ExactGst(i) == ExactSubtotal(i) * i.gst_percent.n
ExactWithGst(i) == 100 * ExactSubtotal(i) + ExactGst(i)
ExactMarkup(i) == ExactWithGst(i) * i.markup_percent.n
ExactTotal(i) == 100 * ExactWithGst(i) + ExactMarkup(i)
\* c hundredths is x / unit hundredths rounded to the nearest.
Nearest(c, x, unit) == 2 * c * unit - unit <= 2 * x /\ 2 * x <= 2 * c * unit + unit

ExampleResult ==
    [subtotal |-> 155000000, gst |-> 27900000, markup |-> 18290000, total |-> 201190000]

\* C5, as stated: each stage is rounded to 2 decimals before the next stage
\* uses it, so that the returned total is the sum of the returned subtotal,
\* GST and markup.
C5_RoundedAtEachStage ==
    quote.result # NoResult => quote.result \in compute_quote_Stagewise(quote.inputs)

\* C5, amended: each returned amount is its formula over the unrounded
\* amounts before it, rounded to 2 decimals once, on return; the returned
\* total is within 0.02 of the sum of the three returned parts; the example
\* returns 1550000.00, 279000.00, 182900.00 and 2011900.00.
C5_RoundedOnReturn ==
    quote.result # NoResult =>
        IF quote.inputs = ExampleInputs
        THEN quote.result = ExampleResult
        ELSE LET i == quote.inputs
                 res == quote.result
                 d == res.total - (res.subtotal + res.gst + res.markup)
             IN  /\ Nearest(res.subtotal, ExactSubtotal(i), 100)
                 /\ Nearest(res.gst, ExactGst(i), 10000)
                 /\ Nearest(res.markup, ExactMarkup(i), 1000000)
                 /\ Nearest(res.total, ExactTotal(i), 1000000)
                 /\ -2 <= d /\ d <= 2

\* A response whose total is not the sum of its parts.
C5_Witness ==
    /\ quote.result # NoResult
    /\ quote.result.total # quote.result.subtotal + quote.result.gst + quote.result.markup

\* C6, as stated: a PATCH on a well-formed id that matches no lead answers
\* 404 and changes nothing.
C6_UnknownLeadIs404 ==
    [][(ev'.op = "update_lead" /\ ev'.kind = "ok" /\ ~ev'.known) =>
           (ev'.code = 404 /\ UNCHANGED store)]_vars

\* C6, amended: a PATCH on a well-formed id that matches no lead changes
\* nothing; it answers 404 when the body supplies a field, and 200 with
\* updated false when the body supplies none.
C6_UnknownLeadIs404UnlessEmpty ==
    [][(ev'.op = "update_lead" /\ ev'.kind = "ok" /\ ~ev'.known) =>
           /\ UNCHANGED store
           /\ IF ev'.empty THEN ev'.code = 200 /\ ev'.updated = "false"
                           ELSE ev'.code = 404]_vars

C6_Witness ==
    /\ ev.op = "update_lead"
    /\ ev.kind = "ok"
    /\ ~ev.known
    /\ ~ev.empty
    /\ ev.code = 404
    /\ DOMAIN lead # {}

\* C7: a PATCH with a well-formed id and a body that supplies no field
\* answers updated false and writes nothing.
C7_EmptyPatchWritesNothing ==
    [][(ev'.op = "update_lead" /\ ev'.kind = "ok" /\ ev'.empty) =>
           (ev'.code = 200 /\ ev'.updated = "false" /\ ~ev'.used /\ UNCHANGED store)]_vars

\* An empty PATCH on a stored lead that an earlier PATCH had changed.
C7_Witness ==
    /\ ev.op = "update_lead"
    /\ ev.kind = "ok"
    /\ ev.known
    /\ ev.empty
    /\ ev.updated = "false"
    /\ \E o \in DOMAIN lead : lead[o].status = "Won"

\* C8: no step removes a document or changes a stored community, tower,
\* flat, floorplan, followup or quotation; a stored lead keeps its name,
\* phone, email, requirement_type and source; its status and assignment
\* change only by a PATCH that addresses it, and only in the fields the body
\* supplies; its follow_up_ids change only by the append of create_followup.
Kept(coll, collNext) ==
    /\ DOMAIN coll \subseteq DOMAIN collNext
    /\ \A o \in DOMAIN coll : collNext[o] = coll[o]
PatchFields == {"status", "assigned_agent_id", "assigned_manager_id"}
FixedFields == {"name", "phone", "email", "requirement_type", "source"}

\* A stored lead from one state to the next.
LeadFrame(o) ==
    /\ \A k \in FixedFields : lead'[o][k] = lead[o][k]
    /\ (\E k \in PatchFields : lead'[o][k] # lead[o][k]) =>
         \E i \in AllIds, p \in LeadUpdates :
            /\ update_lead(i, p)
            /\ ObjectId(i) = o
            /\ \A k \in PatchFields :
                 lead'[o][k] = IF k \in update_doc(p) THEN p[k] ELSE lead[o][k]
    /\ lead'[o].follow_up_ids # lead[o].follow_up_ids =>
         \E r \in Requests :
            /\ CfPush(r)
            /\ ObjectId(r.lead_id) = o
            /\ lead'[o].follow_up_ids = Append(lead[o].follow_up_ids, r.new_id)

C8_Frame ==
    [][/\ followup' = followup \/ Kept(followup, followup')
       /\ quotation' = quotation \/ Kept(quotation, quotation')
       /\ catalog' = catalog \/ Kept(catalog, catalog')
       /\ lead' = lead \/ (/\ DOMAIN lead \subseteq DOMAIN lead'
                           /\ \A o \in DOMAIN lead : lead'[o] = lead[o] \/ LeadFrame(o))]_vars

\* A patched lead beside a catalog document.
C8_Witness ==
    /\ DOMAIN catalog # {}
    /\ \E o \in DOMAIN lead : lead[o].assigned_agent_id = UserId

\* C9: a follow-up whose request died after the insert stays stored and
\* stays out of every lead's follow_up_ids; and every stored follow-up is
\* eventually in the follow_up_ids of the lead it names, unless its request
\* died.
C9_OrphanOrListed ==
    /\ [][\A n \in died : n \in died' /\ n \in DOMAIN followup' /\ ~Listed(n)']_vars
    /\ \A n \in 1..MaxDocs :
         (n \in DOMAIN followup) ~>
             (n \in died \/ (n \in DOMAIN followup /\ ObjectId(followup[n].lead_id) \in ListedAt(n)))

\* A stored follow-up in no lead's list, with no request left to list it.
C9_Witness ==
    \E n \in DOMAIN followup : n \in died /\ ~Listed(n) /\ cf = EmptyBag

=============================================================================
